---- MODULE Spec2Model ----
(***************************************************************************)
(* A model of PointQuadTree (point_quad_tree.py) over the closed-interval  *)
(* geometry of AxisAlignedBoundingBox (axis_aligned_bounding_box.py) and   *)
(* the mutable Point (point.py).                                           *)
(*                                                                         *)
(* Coordinates are integers: the root half-size is 2^MaxDepth units, so    *)
(* every halving the tree performs down to depth MaxDepth is exact, as it  *)
(* is for the binary floats of the program.  A Point object is an identity *)
(* (a number in Points); its coordinates live in pt, which translate       *)
(* mutates in place.  PointQuadTree reads its boundary's center as one     *)
(* object (boundary.center.x); the model keeps the four numbers of the box *)
(* and reads center_x for center.x and center_y for center.y.              *)
(***************************************************************************)
EXTENDS Integers, Sequences, FiniteSets, TLC

\* ------------------------------------------------------------------ bounds
NumPoints == 4
MaxDepth == 3
MaxNodeCapacity == 2
MaxDupInserts == 1
NumDupPoints == 3
MaxBoxCenter == 1
MaxBoxHalfSize == 2

Points == 1..NumPoints
DupPoints == 1..NumDupPoints
None == 0
RootHalfSize == 2 ^ MaxDepth
Unit == RootHalfSize \div 2

\* ------------------------------------------------------------------- Point
Point(x, y) == [x |-> x, y |-> y]

\* mutant: points compared by their coordinates
PointEq_ByValue(a, b, pts) == pts[a] = pts[b]

\* Point defines no __eq__: two Point objects are equal iff they are the same object.
PointEq(a, b, pts) == a = b

\* mutant: the point is moved by twice the amounts
translate_Twice(p, x, y) == Point(p.x + x + x, p.y + y + y)

translate(p, x, y) == [x |-> p.x + x, y |-> p.y + y]

\* ------------------------------------------------- AxisAlignedBoundingBox
AxisAlignedBoundingBox(center_x, center_y, half_size_x, half_size_y) ==
    [center_x |-> center_x, center_y |-> center_y,
     half_size_x |-> half_size_x, half_size_y |-> half_size_y]

\* x_min(), x_max(), y_min(), y_max(): the methods, named apart from the
\* local variables of contains
box_x_min(self) == self.center_x - self.half_size_x

box_x_max(self) == self.center_x + self.half_size_x

box_y_min(self) == self.center_y - self.half_size_y

box_y_max(self) == self.center_y + self.half_size_y

\* mutant: the upper edges are not part of the box
contains_HalfOpen(self, x, y) ==
    /\ self.center_x - self.half_size_x <= x /\ x < self.center_x + self.half_size_x
    /\ self.center_y - self.half_size_y <= y /\ y < self.center_y + self.half_size_y

contains(self, x, y) ==
    LET x_min == self.center_x - self.half_size_x
        x_max == self.center_x + self.half_size_x
        y_min == self.center_y - self.half_size_y
        y_max == self.center_y + self.half_size_y
    IN  (x_min <= x /\ x <= x_max) /\ (y_min <= y /\ y <= y_max)

contains_point(self, point) == contains(self, point.x, point.y)

\* mutant: boxes that only touch do not intersect
intersects_Strict(self, other) ==
    /\ self.center_x - self.half_size_x < other.center_x + other.half_size_x
    /\ self.center_x + self.half_size_x > other.center_x - other.half_size_x
    /\ self.center_y - self.half_size_y < other.center_y + other.half_size_y
    /\ self.center_y + self.half_size_y > other.center_y - other.half_size_y

\* mutant: the last of the four comparisons is left out
intersects_ThreeSides(self, other) ==
    /\ self.center_x - self.half_size_x <= other.center_x + other.half_size_x
    /\ self.center_x + self.half_size_x >= other.center_x - other.half_size_x
    /\ self.center_y - self.half_size_y <= other.center_y + other.half_size_y

intersects(self, other) ==
    LET self_x_min == self.center_x - self.half_size_x
        self_x_max == self.center_x + self.half_size_x
        self_y_min == self.center_y - self.half_size_y
        self_y_max == self.center_y + self.half_size_y
        other_x_min == other.center_x - other.half_size_x
        other_x_max == other.center_x + other.half_size_x
        other_y_min == other.center_y - other.half_size_y
        other_y_max == other.center_y + other.half_size_y
    IN  /\ self_x_min <= other_x_max
        /\ self_x_max >= other_x_min
        /\ self_y_min <= other_y_max
        /\ self_y_max >= other_y_min

\* ---------------------------------------------------------- PointQuadTree
\* A node.  sub holds the four subtree slots in the order upper-left,
\* upper-right, lower-left, lower-right; a slot is <<>> (None) or <<node>>.
PointQuadTree(boundary, node_capacity) ==
    [boundary |-> boundary, _node_capacity |-> node_capacity,
     _points |-> <<>>, sub |-> <<<<>>, <<>>, <<>>, <<>>>>]

\* mutant: the capacity is not asserted
__init___Unasserted(boundary, node_capacity) ==
    [raised |-> FALSE, tree |-> <<PointQuadTree(boundary, node_capacity)>>]

\* The constructor with its assertion: raised, or the one tree constructed.
__init__(boundary, node_capacity) ==
    IF ~(node_capacity >= 1)
    THEN [raised |-> TRUE, tree |-> <<>>]
    ELSE [raised |-> FALSE, tree |-> <<PointQuadTree(boundary, node_capacity)>>]

TranslatePointResult ==
    [translated |-> 1, out_of_bounds |-> 2, not_in_tree |-> 3, removed |-> 4]

\* mutant: the lower-left quadrant is given the upper-left factors
_subtree_quadrant_iterator_Gap == <<<<0, -1, 1>>, <<1, 1, 1>>, <<2, -1, 1>>, <<3, 1, -1>>>>

\* mutant: the quadrants are visited from the lower right to the upper left
_subtree_quadrant_iterator_Reversed == <<<<0, 1, -1>>, <<1, -1, -1>>, <<2, 1, 1>>, <<3, -1, 1>>>>

_subtree_quadrant_iterator == <<<<0, -1, 1>>, <<1, 1, 1>>, <<2, -1, -1>>, <<3, 1, -1>>>>

_subtree_iterator(self) == self.sub

_set_subtree(self, subtree_index, new_subtree) ==
    [self EXCEPT !.sub[subtree_index + 1] = new_subtree]

_has_subdivided(self) == \E i \in 1..4 : _subtree_iterator(self)[i] # <<>>

_has_subtree_points(self) ==
    \E i \in 1..4 :
        /\ _subtree_iterator(self)[i] # <<>>
        /\ Len(_subtree_iterator(self)[i][1]._points) # 0

_clear_subtrees(self) ==
    LET q == _subtree_quadrant_iterator
    IN  _set_subtree(_set_subtree(_set_subtree(_set_subtree(self,
            q[1][1], <<>>), q[2][1], <<>>), q[3][1], <<>>), q[4][1], <<>>)

\* mutant: empty subtrees are never discarded
_remove_empty_subtrees_Never(self) == self

_remove_empty_subtrees(self) ==
    IF ~_has_subtree_points(self) THEN _clear_subtrees(self) ELSE self

\* mutant: the center is moved by the half size of the node, not of the subdivision
_calculate_subdivision_center_Far(self, subdivision_half_size_x, subdivision_half_size_y, factor_x, factor_y) ==
    Point(self.boundary.center_x + (factor_x * self.boundary.half_size_x),
          self.boundary.center_y + (factor_y * self.boundary.half_size_y))

_calculate_subdivision_center(self, subdivision_half_size_x, subdivision_half_size_y, factor_x, factor_y) ==
    Point(self.boundary.center_x + (factor_x * subdivision_half_size_x),
          self.boundary.center_y + (factor_y * subdivision_half_size_y))

\* half_size / 2 is exact while the half-size is even; CanHalve is the
\* model's depth guard.
CanHalve(self) == self.boundary.half_size_x % 2 = 0 /\ self.boundary.half_size_y % 2 = 0

_calculate_subdivision_boundary(self, factor_x, factor_y) ==
    LET subdivision_half_size_x == self.boundary.half_size_x \div 2
        subdivision_half_size_y == self.boundary.half_size_y \div 2
        subdivision_center ==
            _calculate_subdivision_center(self, subdivision_half_size_x,
                                          subdivision_half_size_y, factor_x, factor_y)
    IN  AxisAlignedBoundingBox(subdivision_center.x, subdivision_center.y,
                               subdivision_half_size_x, subdivision_half_size_y)

_create_subdivision(self, factor_x, factor_y) ==
    PointQuadTree(_calculate_subdivision_boundary(self, factor_x, factor_y),
                  self._node_capacity)

_subdivide(self) ==
    LET q == _subtree_quadrant_iterator
        s1 == _set_subtree(self, q[1][1], <<_create_subdivision(self, q[1][2], q[1][3])>>)
        s2 == _set_subtree(s1, q[2][1], <<_create_subdivision(s1, q[2][2], q[2][3])>>)
        s3 == _set_subtree(s2, q[3][1], <<_create_subdivision(s2, q[3][2], q[3][3])>>)
    IN  _set_subtree(s3, q[4][1], <<_create_subdivision(s3, q[4][2], q[4][3])>>)

\* ---- list helpers (Python list semantics)
RECURSIVE ListIndex(_, _, _, _)
\* index of the first element of s equal to point, 0 if none (point in s / s.index)
ListIndex(s, point, pts, i) ==
    IF i > Len(s) THEN 0
    ELSE IF PointEq(s[i], point, pts) THEN i
    ELSE ListIndex(s, point, pts, i + 1)

ListContains(s, point, pts) == ListIndex(s, point, pts, 1) # 0

ListRemove(s, point, pts) ==
    LET k == ListIndex(s, point, pts, 1)
    IN  SubSeq(s, 1, k - 1) \o SubSeq(s, k + 1, Len(s))

\* ---- insert
RECURSIVE insert(_, _, _)
RECURSIVE insert_subtrees(_, _, _, _)
\* mutant: a node takes one point more than its capacity
insert_OverFull(self, point, pts) ==
    IF ~contains_point(self.boundary, pts[point])
    THEN [tree |-> self, ret |-> FALSE, raised |-> FALSE, ovf |-> FALSE]
    ELSE IF Len(self._points) <= self._node_capacity
    THEN [tree |-> [self EXCEPT !._points = Append(@, point)],
          ret |-> TRUE, raised |-> FALSE, ovf |-> FALSE]
    ELSE IF ~_has_subdivided(self) /\ ~CanHalve(self)
    THEN [tree |-> self, ret |-> FALSE, raised |-> FALSE, ovf |-> TRUE]
    ELSE insert_subtrees(IF ~_has_subdivided(self) THEN _subdivide(self) ELSE self,
                         point, pts, 1)

\* mutant: the point is put at the front of the list
insert_Prepend(self, point, pts) ==
    IF ~contains_point(self.boundary, pts[point])
    THEN [tree |-> self, ret |-> FALSE, raised |-> FALSE, ovf |-> FALSE]
    ELSE IF Len(self._points) < self._node_capacity
    THEN [tree |-> [self EXCEPT !._points = <<point>> \o @],
          ret |-> TRUE, raised |-> FALSE, ovf |-> FALSE]
    ELSE IF ~_has_subdivided(self) /\ ~CanHalve(self)
    THEN [tree |-> self, ret |-> FALSE, raised |-> FALSE, ovf |-> TRUE]
    ELSE insert_subtrees(IF ~_has_subdivided(self) THEN _subdivide(self) ELSE self,
                         point, pts, 1)

\* mutant: the boundary is not tested
insert_Unchecked(self, point, pts) ==
    IF Len(self._points) < self._node_capacity
    THEN [tree |-> [self EXCEPT !._points = Append(@, point)],
          ret |-> TRUE, raised |-> FALSE, ovf |-> FALSE]
    ELSE IF ~_has_subdivided(self) /\ ~CanHalve(self)
    THEN [tree |-> self, ret |-> FALSE, raised |-> FALSE, ovf |-> TRUE]
    ELSE insert_subtrees(IF ~_has_subdivided(self) THEN _subdivide(self) ELSE self,
                         point, pts, 1)

\* The result: the node afterwards, the value returned, whether the
\* "assert False" after the loop was reached, and whether a halving
\* below the model's unit was needed (ovf: the step is outside the bounds).
insert(self, point, pts) ==
    IF ~contains_point(self.boundary, pts[point])
    THEN [tree |-> self, ret |-> FALSE, raised |-> FALSE, ovf |-> FALSE]
    ELSE IF Len(self._points) < self._node_capacity
    THEN [tree |-> [self EXCEPT !._points = Append(@, point)],
          ret |-> TRUE, raised |-> FALSE, ovf |-> FALSE]
    ELSE IF ~_has_subdivided(self) /\ ~CanHalve(self)
    THEN [tree |-> self, ret |-> FALSE, raised |-> FALSE, ovf |-> TRUE]
    ELSE insert_subtrees(IF ~_has_subdivided(self) THEN _subdivide(self) ELSE self,
                         point, pts, 1)

\* the loop "for subtree in self._subtree_iterator()" of insert, from slot i on
insert_subtrees(self, point, pts, i) ==
    IF i > 4
    THEN [tree |-> self, ret |-> FALSE, raised |-> TRUE, ovf |-> FALSE]
    ELSE LET r == insert(_subtree_iterator(self)[i][1], point, pts)
         IN  IF r.ret \/ r.raised \/ r.ovf
             THEN [r EXCEPT !.tree = [self EXCEPT !.sub[i] = <<r.tree>>]]
             ELSE insert_subtrees(self, point, pts, i + 1)

\* ---- clear
\* mutant: the subtrees are kept
clear_KeepSubtrees(self) == [self EXCEPT !._points = <<>>]

clear(self) == _clear_subtrees([self EXCEPT !._points = <<>>])

\* ---- remove
RECURSIVE remove(_, _, _)
RECURSIVE _remove_from_subtree(_, _, _, _)
RECURSIVE _remove_from_subtree_leaf(_)
RECURSIVE remove_from_subtree_leaf_loop(_, _)

\* mutant: the last point of the list is taken
_pop_point_Last(self) ==
    IF Len(self._points) # 0
    THEN [tree |-> [self EXCEPT !._points = SubSeq(@, 1, Len(@) - 1)],
          point |-> self._points[Len(self._points)]]
    ELSE [tree |-> self, point |-> None]

\* mutant: the point is returned and stays in the list
_pop_point_Copy(self) ==
    IF Len(self._points) # 0
    THEN [tree |-> self, point |-> Head(self._points)]
    ELSE [tree |-> self, point |-> None]

_pop_point(self) ==
    IF Len(self._points) # 0
    THEN [tree |-> [self EXCEPT !._points = Tail(@)], point |-> Head(self._points)]
    ELSE [tree |-> self, point |-> None]

_remove_from_subtree_leaf(self) ==
    IF _has_subdivided(self)
    THEN remove_from_subtree_leaf_loop(self, 1)
    ELSE _pop_point(self)

\* the loop of _remove_from_subtree_leaf, from slot i on
remove_from_subtree_leaf_loop(self, i) ==
    IF i > 4
    THEN [tree |-> self, point |-> None]
    ELSE LET r == _remove_from_subtree_leaf(_subtree_iterator(self)[i][1])
         IN  IF r.point # None
             THEN [tree |-> _remove_empty_subtrees([self EXCEPT !.sub[i] = <<r.tree>>]),
                   point |-> r.point]
             ELSE remove_from_subtree_leaf_loop(self, i + 1)

_remove_from_leaf(self) ==
    IF _has_subdivided(self)
    THEN _remove_from_subtree_leaf(self)
    ELSE [tree |-> self, point |-> None]

\* mutant: the point taken from the leaf is not appended
_bubble_up_point_Dropped(self) == _remove_from_leaf(self).tree

_bubble_up_point(self) ==
    LET r == _remove_from_leaf(self)
    IN  IF r.point # None
        THEN [r.tree EXCEPT !._points = Append(@, r.point)]
        ELSE r.tree

\* mutant: the point is left in the list
_remove_from_self_Kept(self, point, pts) == _bubble_up_point(self)

_remove_from_self(self, point, pts) ==
    _bubble_up_point([self EXCEPT !._points = ListRemove(@, point, pts)])

remove(self, point, pts) ==
    IF ~contains_point(self.boundary, pts[point])
    THEN [tree |-> self, ret |-> FALSE]
    ELSE IF ListContains(self._points, point, pts)
    THEN [tree |-> _remove_from_self(self, point, pts), ret |-> TRUE]
    ELSE IF _has_subdivided(self)
    THEN LET r == _remove_from_subtree(self, point, pts, 1)
         IN  IF r.ret
             THEN [tree |-> _remove_empty_subtrees(r.tree), ret |-> TRUE]
             ELSE r
    ELSE [tree |-> self, ret |-> FALSE]

\* mutant: the answer of the first subtree whose boundary contains the point is final
_remove_from_subtree_First(self, point, pts, i) ==
    IF i > 4
    THEN [tree |-> self, ret |-> FALSE]
    ELSE LET r == remove(_subtree_iterator(self)[i][1], point, pts)
         IN  IF r.ret \/ contains_point(_subtree_iterator(self)[i][1].boundary, pts[point])
             THEN [tree |-> [self EXCEPT !.sub[i] = <<r.tree>>], ret |-> r.ret]
             ELSE _remove_from_subtree(self, point, pts, i + 1)

\* mutant: a search that found nothing prunes the subtrees
_remove_from_subtree_Pruned(self, point, pts, i) ==
    IF i > 4
    THEN [tree |-> _remove_empty_subtrees(self), ret |-> FALSE]
    ELSE LET r == remove(_subtree_iterator(self)[i][1], point, pts)
         IN  IF r.ret
             THEN [tree |-> [self EXCEPT !.sub[i] = <<r.tree>>], ret |-> TRUE]
             ELSE _remove_from_subtree(self, point, pts, i + 1)

\* the loop of _remove_from_subtree, from slot i on
_remove_from_subtree(self, point, pts, i) ==
    IF i > 4
    THEN [tree |-> self, ret |-> FALSE]
    ELSE LET r == remove(_subtree_iterator(self)[i][1], point, pts)
         IN  IF r.ret
             THEN [tree |-> [self EXCEPT !.sub[i] = <<r.tree>>], ret |-> TRUE]
             ELSE _remove_from_subtree(self, point, pts, i + 1)

\* ---- translate_point
RECURSIVE translate_point(_, _, _, _, _)
RECURSIVE _translate_point_in_subtree(_, _, _, _, _, _)

\* mutant: a point that leaves the boundary is reported removed but stays in the list
_translate_point_in_self_NoRemove(self, point, x, y, pts) ==
    [tree |-> self,
     ret |-> IF contains(self.boundary, pts[point].x + x, pts[point].y + y)
             THEN TranslatePointResult.translated
             ELSE TranslatePointResult.removed,
     pts |-> [pts EXCEPT ![point] = translate(@, x, y)], ovf |-> FALSE]

\* mutant: the point is always translated in place
_translate_point_in_self_InPlace(self, point, x, y, pts) ==
    [tree |-> self, ret |-> TranslatePointResult.translated,
     pts |-> [pts EXCEPT ![point] = translate(@, x, y)], ovf |-> FALSE]

\* mutant: a point translated in place is moved to the end of the list
_translate_point_in_self_ToEnd(self, point, x, y, pts) ==
    IF contains(self.boundary, pts[point].x + x, pts[point].y + y)
    THEN [tree |-> [self EXCEPT !._points = ListRemove(@, point, pts) \o <<point>>],
          ret |-> TranslatePointResult.translated,
          pts |-> [pts EXCEPT ![point] = translate(@, x, y)], ovf |-> FALSE]
    ELSE [tree |-> _remove_empty_subtrees(remove(self, point, pts).tree),
          ret |-> TranslatePointResult.removed,
          pts |-> [pts EXCEPT ![point] = translate(@, x, y)], ovf |-> FALSE]

_translate_point_in_self(self, point, x, y, pts) ==
    IF contains(self.boundary, pts[point].x + x, pts[point].y + y)
    THEN [tree |-> self, ret |-> TranslatePointResult.translated,
          pts |-> [pts EXCEPT ![point] = translate(@, x, y)], ovf |-> FALSE]
    ELSE [tree |-> _remove_empty_subtrees(remove(self, point, pts).tree),
          ret |-> TranslatePointResult.removed,
          pts |-> [pts EXCEPT ![point] = translate(@, x, y)], ovf |-> FALSE]

translate_point(self, point, x, y, pts) ==
    IF ~contains_point(self.boundary, pts[point])
    THEN [tree |-> self, ret |-> TranslatePointResult.out_of_bounds, pts |-> pts, ovf |-> FALSE]
    ELSE IF ListContains(self._points, point, pts)
    THEN _translate_point_in_self(self, point, x, y, pts)
    ELSE IF _has_subdivided(self)
    THEN _translate_point_in_subtree(self, point, x, y, pts, 1)
    ELSE [tree |-> self, ret |-> TranslatePointResult.not_in_tree, pts |-> pts, ovf |-> FALSE]

\* the loop of _translate_point_in_subtree, from slot i on
_translate_point_in_subtree(self, point, x, y, pts, i) ==
    IF i > 4
    THEN [tree |-> self, ret |-> TranslatePointResult.not_in_tree, pts |-> pts, ovf |-> FALSE]
    ELSE LET r == translate_point(_subtree_iterator(self)[i][1], point, x, y, pts)
             self1 == [self EXCEPT !.sub[i] = <<r.tree>>]
         IN  IF r.ret = TranslatePointResult.out_of_bounds
             THEN _translate_point_in_subtree(self, point, x, y, pts, i + 1)
             ELSE IF r.ret = TranslatePointResult.translated
                     \/ r.ret = TranslatePointResult.not_in_tree
             THEN [r EXCEPT !.tree = self1]
             ELSE \* removed: the point is already translated
                  IF contains_point(self.boundary, r.pts[point])
                  THEN LET ins == insert(self1, point, r.pts)
                       IN  [tree |-> ins.tree, ret |-> TranslatePointResult.translated,
                            pts |-> r.pts, ovf |-> ins.ovf]
                  ELSE [tree |-> self1, ret |-> TranslatePointResult.removed,
                        pts |-> r.pts, ovf |-> FALSE]

\* ---- get_all_points, query_points_in_region
RECURSIVE get_all_points(_)
\* mutant: the contents of the children come before the resident points
get_all_points_ChildrenFirst(self) ==
    IF _has_subdivided(self)
    THEN get_all_points(_subtree_iterator(self)[1][1])
            \o get_all_points(_subtree_iterator(self)[2][1])
            \o get_all_points(_subtree_iterator(self)[3][1])
            \o get_all_points(_subtree_iterator(self)[4][1])
            \o self._points
    ELSE self._points

get_all_points(self) ==
    IF _has_subdivided(self)
    THEN self._points \o get_all_points(_subtree_iterator(self)[1][1])
                      \o get_all_points(_subtree_iterator(self)[2][1])
                      \o get_all_points(_subtree_iterator(self)[3][1])
                      \o get_all_points(_subtree_iterator(self)[4][1])
    ELSE self._points

RECURSIVE PointsIn(_, _, _)
\* the points of list s that region contains, in list order
PointsIn(s, region, pts) ==
    IF s = <<>> THEN <<>>
    ELSE (IF contains_point(region, pts[Head(s)]) THEN <<Head(s)>> ELSE <<>>)
         \o PointsIn(Tail(s), region, pts)

RECURSIVE query_points_in_region(_, _, _)
query_points_in_region(self, region, pts) ==
    IF ~intersects(self.boundary, region)
    THEN <<>>
    ELSE IF _has_subdivided(self)
    THEN PointsIn(self._points, region, pts)
            \o query_points_in_region(_subtree_iterator(self)[1][1], region, pts)
            \o query_points_in_region(_subtree_iterator(self)[2][1], region, pts)
            \o query_points_in_region(_subtree_iterator(self)[3][1], region, pts)
            \o query_points_in_region(_subtree_iterator(self)[4][1], region, pts)
    ELSE PointsIn(self._points, region, pts)

\* ------------------------------------------------------------------ state
VARIABLES
    tree,   \* the root PointQuadTree
    pt,     \* pt[p]: the coordinates of Point object p
    live,   \* points whose insert returned True and that were not removed since
    dups,   \* how many inserts of a point the tree already held returned True
    box,    \* the box of a direct call of contains or intersects
    other,  \* the argument box of the call of intersects
    at,     \* the argument (x, y) of the call of contains
    answer  \* the method called last on box and what it returned

vars == <<tree, pt, live, dups, box, other, at, answer>>

treevars == <<tree, pt, live, dups>>

boxvars == <<box, other, at, answer>>

RootBoundary == AxisAlignedBoundingBox(0, 0, RootHalfSize, RootHalfSize)

\* Where Point objects are created, and the amounts they are translated by:
\* from the upper-right corner of the root a point moves to the root's
\* center (on both split lines), to the lower-left corner, and out.
StartPoints == { Point(RootHalfSize, RootHalfSize) }

Shifts == { <<-RootHalfSize, -RootHalfSize>> }

Regions ==
    { RootBoundary,
      AxisAlignedBoundingBox(Unit, Unit, Unit, Unit),
      AxisAlignedBoundingBox(-RootHalfSize, 0, Unit, RootHalfSize),
      AxisAlignedBoundingBox(3 * RootHalfSize, 0, RootHalfSize, RootHalfSize) }

\* Places on the grid of the deepest split lines, inside the root and around it.
ProbePlaces ==
    { Point(x, y) : x, y \in { c \in (-RootHalfSize - 2)..(RootHalfSize + 2) :
                                  c % (Unit \div 2) = 0 } }

\* The capacities a tree is constructed with, the ones below 1 included.
CapacityArgs == (-1)..MaxNodeCapacity

Count(s, p) == Cardinality({i \in 1..Len(s) : s[i] = p})

\* no box has been tested directly
NoBoxCall ==
    /\ box = RootBoundary
    /\ other = RootBoundary
    /\ at = Point(0, 0)
    /\ answer = [op |-> "none", ret |-> FALSE]

Init ==
    /\ \E c \in CapacityArgs :
          LET r == __init__(RootBoundary, c)
          IN  ~r.raised /\ tree = r.tree[1]
    /\ pt \in [Points -> StartPoints]
    /\ live = {}
    /\ dups = 0
    /\ NoBoxCall

\* insert of a point the tree does not hold
Insert(p) ==
    LET r == insert(tree, p, pt)
    IN  /\ Count(get_all_points(tree), p) = 0
        /\ ~r.ovf
        /\ tree' = r.tree
        /\ live' = IF r.ret THEN live \cup {p} ELSE live
        /\ UNCHANGED <<pt, dups>>
        /\ UNCHANGED boxvars

\* insert of a point the tree already holds
InsertAgain(p) ==
    LET r == insert(tree, p, pt)
    IN  /\ Count(get_all_points(tree), p) > 0
        /\ dups < MaxDupInserts
        /\ ~r.ovf
        /\ tree' = r.tree
        /\ live' = IF r.ret THEN live \cup {p} ELSE live
        /\ dups' = IF r.ret THEN dups + 1 ELSE dups
        /\ UNCHANGED pt
        /\ UNCHANGED boxvars

Remove(p) ==
    LET r == remove(tree, p, pt)
    IN  /\ tree' = r.tree
        /\ live' = IF r.ret THEN live \ {p} ELSE live
        /\ UNCHANGED <<pt, dups>>
        /\ UNCHANGED boxvars

TranslatePoint(p, x, y) ==
    LET r == translate_point(tree, p, x, y, pt)
    IN  /\ ~r.ovf
        /\ tree' = r.tree
        /\ pt' = r.pts
        /\ live' = IF r.ret = TranslatePointResult.removed THEN live \ {p} ELSE live
        /\ UNCHANGED dups
        /\ UNCHANGED boxvars

Clear ==
    /\ tree' = clear(tree)
    /\ live' = {}
    /\ UNCHANGED <<pt, dups>>
    /\ UNCHANGED boxvars

Next ==
    \/ \E p \in Points : Insert(p)
    \/ \E p \in Points : Remove(p)
    \/ \E p \in Points : \E s \in Shifts : TranslatePoint(p, s[1], s[2])
    \/ Clear

\* Behaviours in which no point is inserted while the tree holds it.
Spec == Init /\ [][Next]_vars

NextDup ==
    \/ \E p \in DupPoints : Insert(p)
    \/ \E p \in DupPoints : InsertAgain(p)
    \/ \E p \in DupPoints : Remove(p)
    \/ \E p \in DupPoints : \E s \in Shifts : TranslatePoint(p, s[1], s[2])
    \/ Clear

\* Behaviours of fewer points, in which a held point may be inserted again.
SpecDup == Init /\ [][NextDup]_vars

\* Where the Point objects of a run of inserts and removes are created: the
\* upper-right corner of the root, its center and its lower-left corner.
InsertPlaces ==
    { Point(RootHalfSize, RootHalfSize), Point(0, 0), Point(-RootHalfSize, -RootHalfSize) }

InitInsertRemove ==
    /\ \E c \in CapacityArgs :
          LET r == __init__(RootBoundary, c)
          IN  ~r.raised /\ tree = r.tree[1]
    /\ pt \in [Points -> InsertPlaces]
    /\ live = {}
    /\ dups = 0
    /\ NoBoxCall

NextInsertRemove ==
    \/ \E p \in Points : Insert(p)
    \/ \E p \in Points : InsertAgain(p)
    \/ \E p \in Points : Remove(p)

\* Behaviours of insert and remove only, on points created at several places.
SpecInsertRemove == InitInsertRemove /\ [][NextInsertRemove]_vars

\* ---- direct calls of AxisAlignedBoundingBox
\* Boxes with centers and half sizes (>= 0) on a small grid, and the places
\* around them.
Boxes ==
    { AxisAlignedBoundingBox(cx, cy, hx, hy) :
        cx \in (-MaxBoxCenter)..MaxBoxCenter, cy \in (-MaxBoxCenter)..MaxBoxCenter,
        hx \in 0..MaxBoxHalfSize, hy \in 0..MaxBoxHalfSize }

BoxPlaces ==
    { Point(x, y) : x, y \in (-(MaxBoxCenter + MaxBoxHalfSize + 1))
                               ..(MaxBoxCenter + MaxBoxHalfSize + 1) }

InitBox ==
    /\ tree = PointQuadTree(RootBoundary, 1)
    /\ pt \in [Points -> StartPoints]
    /\ live = {}
    /\ dups = 0
    /\ NoBoxCall

\* The calls are independent of each other (the methods keep no state): one
\* call is made on fresh arguments, and Forget drops them again.
Contains(b, xy) ==
    /\ answer.op = "none"
    /\ box' = b
    /\ other' = b
    /\ at' = xy
    /\ answer' = [op |-> "contains", ret |-> contains(b, xy.x, xy.y)]
    /\ UNCHANGED treevars

Intersects(a, b) ==
    /\ answer.op = "none"
    /\ box' = a
    /\ other' = b
    /\ at' = Point(a.center_x, a.center_y)
    /\ answer' = [op |-> "intersects", ret |-> intersects(a, b)]
    /\ UNCHANGED treevars

Forget ==
    /\ answer.op # "none"
    /\ box' = RootBoundary
    /\ other' = RootBoundary
    /\ at' = Point(0, 0)
    /\ answer' = [op |-> "none", ret |-> FALSE]
    /\ UNCHANGED treevars

NextBox ==
    \/ \E b \in Boxes : \E xy \in BoxPlaces : Contains(b, xy)
    \/ \E a, b \in Boxes : Intersects(a, b)
    \/ Forget

\* Behaviours of direct calls of contains and intersects on boxes.
SpecBox == InitBox /\ [][NextBox]_vars

\* ---- the two modules together as they are shipped
\* The parameters of AxisAlignedBoundingBox.__init__ after self; the object
\* has one attribute for each and no other.
AxisAlignedBoundingBox_parameters == <<"center_x", "center_y", "half_size_x", "half_size_y">>

\* A constructor call with positional arguments: a number of arguments
\* other than the number of parameters raises TypeError.
AxisAlignedBoundingBox_call(args) ==
    IF Len(args) # Len(AxisAlignedBoundingBox_parameters)
    THEN [error |-> "TypeError", value |-> <<>>]
    ELSE [error |-> "none",
          value |-> <<AxisAlignedBoundingBox(args[1], args[2], args[3], args[4])>>]

\* "self.boundary.center.x": the read of an attribute the boundary object
\* does not have raises AttributeError.
_calculate_subdivision_center_shipped(self, subdivision_half_size_x, subdivision_half_size_y, factor_x, factor_y) ==
    IF "center" \notin DOMAIN self.boundary
    THEN [error |-> "AttributeError", value |-> <<>>]
    ELSE [error |-> "none",
          value |-> <<Point(self.boundary.center.x + (factor_x * subdivision_half_size_x),
                            self.boundary.center.y + (factor_y * subdivision_half_size_y))>>]

\* The constructor is called with three arguments: the center and the two
\* half sizes.
_calculate_subdivision_boundary_shipped(self, factor_x, factor_y) ==
    LET subdivision_half_size_x == self.boundary.half_size_x \div 2
        subdivision_half_size_y == self.boundary.half_size_y \div 2
        subdivision_center ==
            _calculate_subdivision_center_shipped(self, subdivision_half_size_x,
                                                  subdivision_half_size_y, factor_x, factor_y)
    IN  IF subdivision_center.error # "none"
        THEN subdivision_center
        ELSE AxisAlignedBoundingBox_call(<<subdivision_center.value[1],
                                           subdivision_half_size_x, subdivision_half_size_y>>)

_create_subdivision_shipped(self, factor_x, factor_y) ==
    LET b == _calculate_subdivision_boundary_shipped(self, factor_x, factor_y)
    IN  IF b.error # "none"
        THEN b
        ELSE [error |-> "none", value |-> <<PointQuadTree(b.value[1], self._node_capacity)>>]

RECURSIVE _subdivide_shipped_loop(_, _)
\* the loop of _subdivide from the i-th quadrant on: an exception ends it
\* and leaves the subtrees that were set before
_subdivide_shipped_loop(self, i) ==
    IF i > 4
    THEN [error |-> "none", tree |-> self]
    ELSE LET q == _subtree_quadrant_iterator[i]
             c == _create_subdivision_shipped(self, q[2], q[3])
         IN  IF c.error # "none"
             THEN [error |-> c.error, tree |-> self]
             ELSE _subdivide_shipped_loop(_set_subtree(self, q[1], c.value), i + 1)

_subdivide_shipped(self) == _subdivide_shipped_loop(self, 1)

RECURSIVE insert_shipped(_, _, _)
RECURSIVE insert_subtrees_shipped(_, _, _, _)
\* The result: the node afterwards, the value returned, the exception
\* that ended the call ("none" if it returned), and ovf as for insert.
insert_shipped(self, point, pts) ==
    IF ~contains_point(self.boundary, pts[point])
    THEN [tree |-> self, ret |-> FALSE, error |-> "none", ovf |-> FALSE]
    ELSE IF Len(self._points) < self._node_capacity
    THEN [tree |-> [self EXCEPT !._points = Append(@, point)],
          ret |-> TRUE, error |-> "none", ovf |-> FALSE]
    ELSE IF ~_has_subdivided(self) /\ ~CanHalve(self)
    THEN [tree |-> self, ret |-> FALSE, error |-> "none", ovf |-> TRUE]
    ELSE LET s == IF ~_has_subdivided(self)
                  THEN _subdivide_shipped(self)
                  ELSE [error |-> "none", tree |-> self]
         IN  IF s.error # "none"
             THEN [tree |-> s.tree, ret |-> FALSE, error |-> s.error, ovf |-> FALSE]
             ELSE insert_subtrees_shipped(s.tree, point, pts, 1)

insert_subtrees_shipped(self, point, pts, i) ==
    IF i > 4
    THEN [tree |-> self, ret |-> FALSE, error |-> "AssertionError", ovf |-> FALSE]
    ELSE LET r == insert_shipped(_subtree_iterator(self)[i][1], point, pts)
         IN  IF r.ret \/ r.error # "none" \/ r.ovf
             THEN [r EXCEPT !.tree = [self EXCEPT !.sub[i] = <<r.tree>>]]
             ELSE insert_subtrees_shipped(self, point, pts, i + 1)

\* The tree is constructed on a box made by
\* AxisAlignedBoundingBox(center_x, center_y, half_size_x, half_size_y).
InitShipped ==
    /\ \E c \in CapacityArgs :
          LET b == AxisAlignedBoundingBox_call(<<0, 0, RootHalfSize, RootHalfSize>>)
              r == __init__(b.value[1], c)
          IN  b.error = "none" /\ ~r.raised /\ tree = r.tree[1]
    /\ pt \in [Points -> InsertPlaces]
    /\ live = {}
    /\ dups = 0
    /\ NoBoxCall

\* insert of a point the tree does not hold; an exception leaves the tree as
\* it was when it was raised
InsertShipped(p) ==
    LET r == insert_shipped(tree, p, pt)
    IN  /\ Count(get_all_points(tree), p) = 0
        /\ ~r.ovf
        /\ tree' = r.tree
        /\ live' = IF r.ret THEN live \cup {p} ELSE live
        /\ UNCHANGED <<pt, dups>>
        /\ UNCHANGED boxvars

\* remove, translate_point and clear read of a boundary only what
\* contains_point reads, which the box has.
NextShipped ==
    \/ \E p \in Points : InsertShipped(p)
    \/ \E p \in Points : Remove(p)
    \/ \E p \in Points : \E s \in Shifts : TranslatePoint(p, s[1], s[2])
    \/ Clear

\* Behaviours of a tree whose boundary is an AxisAlignedBoundingBox as shipped.
SpecShipped == InitShipped /\ [][NextShipped]_vars

\* ------------------------------------------------------------- properties
RECURSIVE Nodes(_)
\* every node of the tree rooted at self
Nodes(self) ==
    {self} \cup UNION { Nodes(_subtree_iterator(self)[i][1]) :
                          i \in {j \in 1..4 : _subtree_iterator(self)[j] # <<>>} }

Elements(s) == {s[i] : i \in 1..Len(s)}

Stored(p) == Count(get_all_points(tree), p)

InRoot(xy) == contains_point(tree.boundary, xy)

\* C1: a point whose insert returned True stays in query(root boundary) until
\* remove of that point, clear, or a translate_point of it that returned removed.
C1_RoundTrip ==
    \A p \in live : p \in Elements(query_points_in_region(tree, tree.boundary, pt))

\* C2: translate_point(e, dx, dy) leaves the same set of elements in the tree and
\* the same coordinates of e as remove(e), shifting e, and insert(e).
C2_TranslateIsRemoveInsert ==
    \A p \in Points : \A s \in Shifts :
        LET t == translate_point(tree, p, s[1], s[2], pt)
            rm == remove(tree, p, pt)
            pts2 == [pt EXCEPT ![p] = translate(@, s[1], s[2])]
            ins == insert(rm.tree, p, pts2)
        IN  (Stored(p) > 0 /\ ~t.ovf /\ ~ins.ovf) =>
                /\ Elements(get_all_points(t.tree)) = Elements(get_all_points(ins.tree))
                /\ t.pts[p] = pts2[p]

\* C3 (as claimed): for every region, query_points_in_region returns exactly the
\* stored references whose coordinates the region contains, each once.
C3_QueryExact ==
    \A region \in Regions :
        query_points_in_region(tree, region, pt)
            = PointsIn(get_all_points(tree), region, pt)

\* C3 (amended): the same, in behaviours where no point was inserted while the
\* tree already held it.
C3_QueryExactNoDup == (dups = 0) => C3_QueryExact

C3_Witness ==
    /\ dups = 0
    /\ _has_subdivided(tree)
    /\ \E region \in Regions :
          /\ region # tree.boundary
          /\ \E i \in 1..4 :
                /\ ~intersects(_subtree_iterator(tree)[i][1].boundary, region)
                /\ get_all_points(_subtree_iterator(tree)[i][1]) # <<>>
          /\ \E i \in 1..4 :
                query_points_in_region(_subtree_iterator(tree)[i][1], region, pt) # <<>>

\* C4: every node holds at most node_capacity resident points.
C4_CapacityBound ==
    \A n \in Nodes(tree) : Len(n._points) <= n._node_capacity

C4_Witness ==
    /\ tree._node_capacity = 2
    /\ Len(tree._points) = 2
    /\ \E i \in 1..4 :
          /\ _subtree_iterator(tree)[i] # <<>>
          /\ Len(_subtree_iterator(tree)[i][1]._points) = 2

\* C5: insert of a point whose coordinates the root boundary contains returns
\* True and never reaches the "assert False" after the loop over the subtrees:
\* for the points as they are, and for a point at any place of ProbePlaces
\* (the corners, the outer edges and the split lines of every depth).
C5_InBoundsInsertSucceeds ==
    /\ \A p \in Points :
          LET r == insert(tree, p, pt)
          IN  (InRoot(pt[p]) /\ ~r.ovf) => (r.ret /\ ~r.raised)
    /\ \A xy \in ProbePlaces :
          LET r == insert(tree, 1, [pt EXCEPT ![1] = xy])
          IN  (InRoot(xy) /\ ~r.ovf) => (r.ret /\ ~r.raised)

C5_Witness ==
    /\ _has_subdivided(tree)
    /\ \E p \in Points :
          /\ Stored(p) = 0
          /\ pt[p] = Point(tree.boundary.center_x, tree.boundary.center_y)
          /\ insert(tree, p, pt).ret
          /\ Len(insert(tree, p, pt).tree._points) = Len(tree._points)

\* C6: insert of a point whose coordinates are outside the root boundary returns
\* False and leaves the tree as it was (the same nodes, the same resident
\* points): for the points as they are, and for a point at any place of
\* ProbePlaces.
C6_OutOfBoundsInsertRejected ==
    /\ \A p \in Points :
          ~InRoot(pt[p]) =>
              LET r == insert(tree, p, pt)
              IN  ~r.ret /\ ~r.raised /\ r.tree = tree
    /\ \A xy \in ProbePlaces :
          ~InRoot(xy) =>
              LET r == insert(tree, 1, [pt EXCEPT ![1] = xy])
              IN  ~r.ret /\ ~r.raised /\ r.tree = tree

C6_Witness ==
    /\ _has_subdivided(tree)
    /\ \E p \in Points : ~InRoot(pt[p]) /\ ~insert(tree, p, pt).ret
    /\ Len(tree._points) < tree._node_capacity

\* C7 (as claimed): remove(e) returns True iff e is stored in some node, and then
\* exactly one reference to e is gone from get_all_points().
C7_RemoveFindsStored ==
    \A p \in Points :
        LET r == remove(tree, p, pt)
        IN  /\ r.ret = (Stored(p) > 0)
            /\ r.ret => Count(get_all_points(r.tree), p) = Stored(p) - 1

\* C7 (amended): the same, in behaviours where no point was inserted while the
\* tree already held it.
C7_RemoveFindsStoredNoDup == (dups = 0) => C7_RemoveFindsStored

\* a point that an in-place translate moved onto the line two quadrants share,
\* held by the later of the two
C7_Witness ==
    /\ dups = 0
    /\ _has_subdivided(tree)
    /\ \E p \in Points : \E i, j \in 1..4 :
          /\ i < j
          /\ p \in Elements(_subtree_iterator(tree)[j][1]._points)
          /\ contains_point(_subtree_iterator(tree)[i][1].boundary, pt[p])
          /\ remove(tree, p, pt).ret

\* C8 (as claimed): for a point stored exactly once, remove returns True and an
\* immediately following remove returns False.
C8_RemoveTwice ==
    \A p \in Points :
        Stored(p) = 1 =>
            LET r1 == remove(tree, p, pt)
            IN  r1.ret /\ ~remove(r1.tree, p, pt).ret

\* C8 (amended): the same, in behaviours where no point was inserted while the
\* tree already held it.
C8_RemoveTwiceNoDup == (dups = 0) => C8_RemoveTwice

C8_Witness ==
    /\ dups = 0
    /\ \E p \in Points :
          /\ Stored(p) = 1
          /\ p \notin Elements(tree._points)
          /\ remove(tree, p, pt).ret
          /\ ~remove(remove(tree, p, pt).tree, p, pt).ret

\* C9: remove of a point that is not stored but has the coordinates of a stored
\* one returns False and leaves the tree as it was.
C9_RemoveByEquality ==
    \A e, f \in Points :
        (e # f /\ Stored(e) > 0 /\ Stored(f) = 0 /\ pt[f] = pt[e]) =>
            LET r == remove(tree, f, pt)
            IN  ~r.ret /\ r.tree = tree

C9_Witness ==
    \E e, f \in Points :
        /\ e # f /\ Stored(e) > 0 /\ Stored(f) = 0 /\ pt[f] = pt[e]
        /\ e \notin Elements(tree._points)
        /\ ~remove(tree, f, pt).ret

\* C10: for a stored point, translate_point returns translated when the shifted
\* coordinates lie inside the root boundary and removed when they lie outside
\* (never not_in_tree, never out_of_bounds while its coordinates are inside).
C10_TranslateResultCodes ==
    \A p \in Points : \A s \in Shifts :
        LET r == translate_point(tree, p, s[1], s[2], pt)
        IN  (Stored(p) > 0 /\ ~r.ovf) =>
                /\ r.ret # TranslatePointResult.not_in_tree
                /\ (r.ret = TranslatePointResult.out_of_bounds) => ~InRoot(pt[p])
                /\ InRoot(pt[p]) =>
                      r.ret = (IF InRoot(translate(pt[p], s[1], s[2]))
                               THEN TranslatePointResult.translated
                               ELSE TranslatePointResult.removed)

\* the nodes of the tree whose resident list holds p
Holders(self, p) == {n \in Nodes(self) : p \in Elements(n._points)}

\* p is held at least two levels below the root
Deep(p) ==
    /\ _has_subdivided(tree)
    /\ \E i \in 1..4 :
          LET c == _subtree_iterator(tree)[i][1]
          IN  /\ p \notin Elements(c._points)
              /\ p \in Elements(get_all_points(c))

\* C11: when translate_point returns removed for a point stored exactly once,
\* the point is no longer in get_all_points(), its coordinates are the old ones
\* plus (dx, dy), and these lie outside the root boundary.
C11_RemovedPostState ==
    \A p \in Points : \A s \in Shifts :
        LET r == translate_point(tree, p, s[1], s[2], pt)
        IN  (Stored(p) = 1 /\ r.ret = TranslatePointResult.removed) =>
                /\ Count(get_all_points(r.tree), p) = 0
                /\ r.pts[p] = Point(pt[p].x + s[1], pt[p].y + s[2])
                /\ ~InRoot(r.pts[p])

\* a point held two levels below the root leaves the tree
C11_Witness ==
    \E p \in Points : \E s \in Shifts :
        /\ Stored(p) = 1
        /\ Deep(p)
        /\ translate_point(tree, p, s[1], s[2], pt).ret = TranslatePointResult.removed

\* C12: when translate_point returns translated for a point stored exactly once,
\* the point is still stored exactly once, its coordinates are the old ones plus
\* (dx, dy), and the boundary of the node that holds it contains them.
C12_TranslatedPostState ==
    \A p \in Points : \A s \in Shifts :
        LET r == translate_point(tree, p, s[1], s[2], pt)
        IN  (Stored(p) = 1 /\ ~r.ovf /\ r.ret = TranslatePointResult.translated) =>
                /\ Count(get_all_points(r.tree), p) = 1
                /\ r.pts[p] = Point(pt[p].x + s[1], pt[p].y + s[2])
                /\ \A n \in Holders(r.tree, p) : contains_point(n.boundary, r.pts[p])

\* a descendant removed the point and the root inserted it into another quadrant
C12_Witness ==
    \E p \in Points : \E s \in Shifts : \E i, j \in 1..4 :
        LET r == translate_point(tree, p, s[1], s[2], pt)
        IN  /\ Stored(p) = 1
            /\ _has_subdivided(tree)
            /\ i # j
            /\ p \in Elements(get_all_points(_subtree_iterator(tree)[i][1]))
            /\ ~r.ovf
            /\ r.ret = TranslatePointResult.translated
            /\ p \in Elements(get_all_points(_subtree_iterator(r.tree)[j][1]))

\* C13: a remove that returns False and a translate_point that returns
\* out_of_bounds or not_in_tree leave the tree as it was (the same nodes, the
\* same children, the same resident lists in the same order) and leave the
\* coordinates of the point unchanged.
C13_FailedMutationsAtomic ==
    \A p \in Points :
        /\ LET r == remove(tree, p, pt)
           IN  ~r.ret => r.tree = tree
        /\ \A s \in Shifts :
              LET r == translate_point(tree, p, s[1], s[2], pt)
              IN  (r.ret = TranslatePointResult.out_of_bounds
                     \/ r.ret = TranslatePointResult.not_in_tree) =>
                      (r.tree = tree /\ r.pts = pt)

\* on a subdivided tree, all of whose children are searched: a remove that fails,
\* a translate_point that answers not_in_tree, and one that answers out_of_bounds
C13_Witness ==
    /\ _has_subdivided(tree)
    /\ \E p \in Points :
          /\ InRoot(pt[p])
          /\ ~remove(tree, p, pt).ret
          /\ \E s \in Shifts : translate_point(tree, p, s[1], s[2], pt).ret
                                  = TranslatePointResult.not_in_tree
    /\ \E p \in Points : \E s \in Shifts :
          translate_point(tree, p, s[1], s[2], pt).ret = TranslatePointResult.out_of_bounds

\* the child of n on the side (fx, fy) of its center: (-1, 1) is upper left
Quadrant(n, fx, fy) ==
    CHOOSE c \in {_subtree_iterator(n)[i][1] : i \in 1..4} :
        /\ c.boundary.center_x = n.boundary.center_x + fx * (n.boundary.half_size_x \div 2)
        /\ c.boundary.center_y = n.boundary.center_y + fy * (n.boundary.half_size_y \div 2)

\* C14 (as claimed): query_points_in_region(root boundary) and get_all_points()
\* return the same sequence, and in every node the listing is the resident
\* points, then the contents of the upper-left, upper-right, lower-left and
\* lower-right children.
C14_FullQueryIsListing ==
    /\ query_points_in_region(tree, tree.boundary, pt) = get_all_points(tree)
    /\ \A n \in Nodes(tree) :
          _has_subdivided(n) =>
              get_all_points(n) = n._points
                                    \o get_all_points(Quadrant(n, -1, 1))
                                    \o get_all_points(Quadrant(n, 1, 1))
                                    \o get_all_points(Quadrant(n, -1, -1))
                                    \o get_all_points(Quadrant(n, 1, -1))

\* C14 (amended): the same, in behaviours where no point was inserted while the
\* tree already held it.
C14_FullQueryIsListingNoDup == (dups = 0) => C14_FullQueryIsListing

\* resident points in the root and in two of its quadrants
C14_Witness ==
    /\ dups = 0
    /\ _has_subdivided(tree)
    /\ tree._points # <<>>
    /\ \E i, j \in 1..4 :
          /\ i < j
          /\ get_all_points(_subtree_iterator(tree)[i][1]) # <<>>
          /\ get_all_points(_subtree_iterator(tree)[j][1]) # <<>>
    /\ query_points_in_region(tree, tree.boundary, pt) = get_all_points(tree)

\* the listing s with one reference to p more (d = 1), less (d = -1) or the same (d = 0)
SameBut(s, t, p, d) ==
    \A q \in Points : Count(t, q) = Count(s, q) + (IF q = p THEN d ELSE 0)

\* C15: in runs of insert and remove only, get_all_points() holds, as a
\* multiset, the points whose insert returned True minus those whose remove
\* returned True: every insert that returns True adds one reference to its
\* point and nothing else, every remove that returns True takes one reference
\* to its point and nothing else, the calls that return False change nothing,
\* and while no point was inserted twice the listing holds each live point once.
C15_ContentConservation ==
    /\ \A p \in Points :
          LET r == insert(tree, p, pt)
          IN  ~r.ovf => SameBut(get_all_points(tree), get_all_points(r.tree), p,
                                IF r.ret THEN 1 ELSE 0)
    /\ \A p \in Points :
          LET r == remove(tree, p, pt)
          IN  SameBut(get_all_points(tree), get_all_points(r.tree), p,
                      IF r.ret THEN -1 ELSE 0)
    /\ (dups = 0) =>
          \A p \in Points : Stored(p) = (IF p \in live THEN 1 ELSE 0)

\* the removal of a resident point of the root brings up a point from a leaf two
\* levels below, while other quadrants hold points too
C15_Witness ==
    \E p \in Points :
        /\ p \in Elements(tree._points)
        /\ \E q \in Points : Deep(q) /\ q \in Elements(remove(tree, p, pt).tree._points)
        /\ \E i, j \in 1..4 :
              /\ i # j
              /\ get_all_points(_subtree_iterator(tree)[i][1]) # <<>>
              /\ get_all_points(_subtree_iterator(tree)[j][1]) # <<>>

\* C16: after clear() the root has no resident points and no children,
\* get_all_points() is empty, boundary and capacity are unchanged, and the tree
\* is in the state of a newly constructed tree of that boundary and capacity
\* (so every later operation acts on it as on a new tree).
C16_ClearResets ==
    LET c == clear(tree)
    IN  /\ c._points = <<>>
        /\ ~_has_subdivided(c)
        /\ get_all_points(c) = <<>>
        /\ c.boundary = tree.boundary
        /\ c._node_capacity = tree._node_capacity
        /\ c = PointQuadTree(tree.boundary, tree._node_capacity)

\* clear of a tree that holds a point two levels below the root
C16_Witness ==
    /\ \E p \in Points : Deep(p)
    /\ get_all_points(clear(tree)) = <<>>

\* C17: constructing a PointQuadTree with node_capacity < 1 fails with an
\* assertion and yields no tree; with node_capacity >= 1 it yields an empty leaf
\* (no resident points, no children) of that boundary and capacity.
C17_ConstructionPrecondition ==
    \A c \in CapacityArgs :
        LET r == __init__(tree.boundary, c)
        IN  /\ (c < 1) => (r.raised /\ r.tree = <<>>)
            /\ (c >= 1) => /\ ~r.raised
                           /\ Len(r.tree) = 1
                           /\ r.tree[1]._points = <<>>
                           /\ ~_has_subdivided(r.tree[1])
                           /\ r.tree[1].boundary = tree.boundary
                           /\ r.tree[1]._node_capacity = c

\* the state after a construction, beside a construction that fails
C17_Witness ==
    /\ live = {}
    /\ \E c \in CapacityArgs : ~__init__(RootBoundary, c).raised
                                 /\ tree = __init__(RootBoundary, c).tree[1]
    /\ \E c \in CapacityArgs : __init__(RootBoundary, c).raised

\* C18: contains(x, y) is true iff center_x - half_size_x <= x <= center_x +
\* half_size_x and center_y - half_size_y <= y <= center_y + half_size_y; the
\* four corners of the box and the middles of its four edges are contained.
C18_ContainsClosed ==
    /\ answer.op = "contains" =>
          answer.ret = (/\ box.center_x - box.half_size_x <= at.x
                        /\ at.x <= box.center_x + box.half_size_x
                        /\ box.center_y - box.half_size_y <= at.y
                        /\ at.y <= box.center_y + box.half_size_y)
    /\ \A x \in {box_x_min(box), box.center_x, box_x_max(box)} :
          \A y \in {box_y_min(box), box.center_y, box_y_max(box)} : contains(box, x, y)

\* a corner of a box that is not a single point
C18_Witness ==
    /\ answer.op = "contains"
    /\ box.half_size_x > 0 /\ box.half_size_y > 0
    /\ at = Point(box_x_max(box), box_y_min(box))
    /\ answer.ret

\* the boxes lie apart along some axis
Separated(a, b) ==
    \/ box_x_max(a) < box_x_min(b) \/ box_x_max(b) < box_x_min(a)
    \/ box_y_max(a) < box_y_min(b) \/ box_y_max(b) < box_y_min(a)

\* the boxes share only points of their edges
Touching(a, b) ==
    /\ ~Separated(a, b)
    /\ \/ box_x_max(a) = box_x_min(b) \/ box_x_max(b) = box_x_min(a)
       \/ box_y_max(a) = box_y_min(b) \/ box_y_max(b) = box_y_min(a)

\* C19: A.intersects(B) = B.intersects(A); A.intersects(A) is true; boxes
\* separated along either axis do not intersect; boxes that only touch along
\* an edge or at a corner do intersect.
C19_IntersectsSymmetric ==
    answer.op = "intersects" =>
        /\ answer.ret = intersects(other, box)
        /\ intersects(box, box)
        /\ Separated(box, other) => ~answer.ret
        /\ Touching(box, other) => answer.ret

\* two boxes, neither a single point, that share one corner only
C19_Witness ==
    /\ answer.op = "intersects"
    /\ box.half_size_x > 0 /\ box.half_size_y > 0
    /\ other.half_size_x > 0 /\ other.half_size_y > 0
    /\ box_x_max(box) = box_x_min(other)
    /\ box_y_min(box) = box_y_max(other)
    /\ answer.ret

\* C20: after every insert, remove or translate_point on the root, no node
\* that has children holds fewer than node_capacity resident points while
\* some descendant of it holds a resident point.
C20_Packing ==
    \A n \in Nodes(tree) :
        (_has_subdivided(n) /\ Len(n._points) < n._node_capacity) =>
            Len(get_all_points(n)) = Len(n._points)

\* a node without resident points and without children
EmptyLeaf(n) == n._points = <<>> /\ ~_has_subdivided(n)

\* C21: after every remove or translate_point on the root, no node has four
\* children that are all empty leaves.
C21_NoEmptyQuads ==
    \A n \in Nodes(tree) :
        _has_subdivided(n) =>
            \E i \in 1..4 : ~EmptyLeaf(_subtree_iterator(n)[i][1])

\* C22: in runs of insert and remove only, every node that has children holds
\* exactly node_capacity resident points and one of its children holds a
\* resident point; with capacity 1, when the root holds one point and one
\* child holds the only other one, removing either leaves the root holding the
\* other with no children.
C22_BubbleUp ==
    /\ \A n \in Nodes(tree) :
          _has_subdivided(n) =>
              (Len(n._points) = n._node_capacity /\ _has_subtree_points(n))
    /\ \A e, f \in Points :
          (tree._node_capacity = 1 /\ tree._points = <<e>>
             /\ get_all_points(tree) = <<e, f>>) =>
              /\ remove(tree, e, pt).tree
                    = [PointQuadTree(tree.boundary, 1) EXCEPT !._points = <<f>>]
              /\ remove(tree, f, pt).tree
                    = [PointQuadTree(tree.boundary, 1) EXCEPT !._points = <<e>>]

\* capacity 1, two points, one subdivision: the first is removed
C22_Witness ==
    \E e, f \in Points :
        /\ e # f
        /\ tree._node_capacity = 1
        /\ tree._points = <<e>>
        /\ get_all_points(tree) = <<e, f>>
        /\ _has_subdivided(tree)
        /\ remove(tree, e, pt).ret
        /\ ~_has_subdivided(remove(tree, e, pt).tree)

\* C23 (as claimed): every resident point of every node has coordinates that the
\* node's boundary contains.
C23_ResidentsInNode ==
    \A n \in Nodes(tree) :
        \A k \in 1..Len(n._points) : contains_point(n.boundary, pt[n._points[k]])

\* C23 (amended): the same, in behaviours where no point was inserted while the
\* tree already held it.
C23_ResidentsInNodeNoDup == (dups = 0) => C23_ResidentsInNode

\* a translated point held two levels below the root
C23_Witness ==
    /\ dups = 0
    /\ \E p \in Points : Deep(p) /\ pt[p] \notin StartPoints
    /\ C23_ResidentsInNode

\* the signs of the four quadrants in the order of the children
QuadrantSigns == <<<<-1, 1>>, <<1, 1>>, <<-1, -1>>, <<1, -1>>>>

\* the corners, the edge middles, the center and the quadrant centers of n
GridOf(n) ==
    { Point(n.boundary.center_x + kx * (n.boundary.half_size_x \div 2),
            n.boundary.center_y + ky * (n.boundary.half_size_y \div 2)) :
        kx, ky \in (-2)..2 }

\* C24: a node that has children has all four; each child has the node's
\* capacity, half sizes that are half of the node's, and its center at the
\* node's center moved by (-,+), (+,+), (-,-), (+,-) times the child's half
\* sizes, in the order of the children; the four boundaries cover the node's
\* boundary: neighbours share their edge, the outer edges are the node's, and
\* every place of the node's grid is in some child.
C24_QuadrantGeometry ==
    \A n \in Nodes(tree) :
        _has_subdivided(n) =>
            /\ \A i \in 1..4 : _subtree_iterator(n)[i] # <<>>
            /\ \A i \in 1..4 :
                  LET c == _subtree_iterator(n)[i][1]
                  IN  /\ c._node_capacity = n._node_capacity
                      /\ 2 * c.boundary.half_size_x = n.boundary.half_size_x
                      /\ 2 * c.boundary.half_size_y = n.boundary.half_size_y
                      /\ c.boundary.center_x = n.boundary.center_x
                            + QuadrantSigns[i][1] * c.boundary.half_size_x
                      /\ c.boundary.center_y = n.boundary.center_y
                            + QuadrantSigns[i][2] * c.boundary.half_size_y
            /\ LET ul == _subtree_iterator(n)[1][1].boundary
                   ur == _subtree_iterator(n)[2][1].boundary
                   ll == _subtree_iterator(n)[3][1].boundary
                   lr == _subtree_iterator(n)[4][1].boundary
               IN  /\ box_x_min(ul) = box_x_min(n.boundary) /\ box_x_max(ul) = box_x_min(ur)
                   /\ box_x_max(ur) = box_x_max(n.boundary) /\ box_y_max(ul) = box_y_max(n.boundary)
                   /\ box_y_min(ul) = box_y_max(ll) /\ box_y_min(ll) = box_y_min(n.boundary)
                   /\ box_x_min(ll) = box_x_min(n.boundary) /\ box_x_max(ll) = box_x_min(lr)
                   /\ box_x_max(lr) = box_x_max(n.boundary) /\ box_y_min(lr) = box_y_min(n.boundary)
                   /\ box_y_max(lr) = box_y_min(ur) /\ box_y_max(ur) = box_y_max(n.boundary)
            /\ \A xy \in GridOf(n) :
                  \E i \in 1..4 : contains_point(_subtree_iterator(n)[i][1].boundary, xy)

\* a child of the root that has children of its own
C24_Witness ==
    /\ _has_subdivided(tree)
    /\ \E i \in 1..4 : _has_subdivided(_subtree_iterator(tree)[i][1])
    /\ \A xy \in GridOf(tree) :
          \E i \in 1..4 : contains_point(_subtree_iterator(tree)[i][1].boundary, xy)

RECURSIVE Extends(_, _)
\* new is old with points appended to resident lists and leaves subdivided:
\* every resident list of old is the front of the list of the same node of new
Extends(old, new) ==
    /\ new.boundary = old.boundary
    /\ Len(new._points) >= Len(old._points)
    /\ SubSeq(new._points, 1, Len(old._points)) = old._points
    /\ _has_subdivided(old) =>
          /\ _has_subdivided(new)
          /\ \A i \in 1..4 : Extends(_subtree_iterator(old)[i][1], _subtree_iterator(new)[i][1])

RECURSIVE InsertAll(_, _, _)
\* the tree after the inserts of the points of s, one after the other, and
\* whether all of them returned True
InsertAll(self, s, pts) ==
    IF s = <<>> THEN [tree |-> self, ok |-> TRUE]
    ELSE LET r == insert(self, Head(s), pts)
             rest == InsertAll(r.tree, Tail(s), pts)
         IN  [tree |-> rest.tree, ok |-> r.ret /\ ~r.ovf /\ rest.ok]

\* the sequences of n different points
Distinct(n) ==
    { s \in [1..n -> Points] : \A i, j \in 1..n : i # j => s[i] # s[j] }

\* C25: insert leaves every resident list as the front of what it is afterwards
\* (nothing moves, nothing is reordered); a leaf subdivides exactly when a point
\* inside its boundary is inserted while it holds node_capacity points; after
\* node_capacity + 1 successful inserts into an empty tree the root holds the
\* first node_capacity points in insertion order, exactly one child holds the
\* last one, and no child has subdivided.
C25_LazySubdivision ==
    /\ \A p \in Points :
          LET r == insert(tree, p, pt)
          IN  ~r.ovf => Extends(tree, r.tree)
    /\ \A n \in Nodes(tree) : \A p \in Points :
          LET r == insert(n, p, pt)
          IN  (~_has_subdivided(n) /\ ~r.ovf) =>
                  (_has_subdivided(r.tree)
                     <=> (contains_point(n.boundary, pt[p])
                            /\ Len(n._points) = n._node_capacity))
    /\ \A s \in Distinct(tree._node_capacity + 1) :
          LET r == InsertAll(PointQuadTree(tree.boundary, tree._node_capacity), s, pt)
          IN  r.ok =>
                  /\ r.tree._points = SubSeq(s, 1, tree._node_capacity)
                  /\ \E i \in 1..4 :
                        /\ _subtree_iterator(r.tree)[i][1]._points
                              = <<s[tree._node_capacity + 1]>>
                        /\ \A j \in 1..4 :
                              j # i => _subtree_iterator(r.tree)[j][1]._points = <<>>
                  /\ \A i \in 1..4 : ~_has_subdivided(_subtree_iterator(r.tree)[i][1])

\* capacity 2: three inserts into the empty tree, the third of a point of
\* another place; and an insert that subdivides a leaf below the root
C25_Witness ==
    /\ tree._node_capacity = 2
    /\ \E s \in Distinct(3) :
          /\ pt[s[3]] # pt[s[1]]
          /\ InsertAll(PointQuadTree(tree.boundary, 2), s, pt).ok
    /\ \E p \in Points : \E i \in 1..4 :
          /\ _has_subdivided(tree)
          /\ ~_has_subdivided(_subtree_iterator(tree)[i][1])
          /\ insert(tree, p, pt).ret
          /\ _has_subdivided(_subtree_iterator(insert(tree, p, pt).tree)[i][1])

RECURSIVE LeafList(_, _)
\* the nodes without children under n (n itself if it has none), depth first in
\* the order of the children, each with its depth below the start (d at n)
LeafList(n, d) ==
    IF _has_subdivided(n)
    THEN LeafList(_subtree_iterator(n)[1][1], d + 1)
            \o LeafList(_subtree_iterator(n)[2][1], d + 1)
            \o LeafList(_subtree_iterator(n)[3][1], d + 1)
            \o LeafList(_subtree_iterator(n)[4][1], d + 1)
    ELSE <<[points |-> n._points, depth |-> d]>>

HoldsPoints(leaf) == leaf.points # <<>>

\* the leaves under n that hold points
PopulatedLeaves(n) == SelectSeq(LeafList(n, 0), HoldsPoints)

\* the first populated leaf under n is one of greatest depth
FirstIsDeepest(n) ==
    LET l == PopulatedLeaves(n)
    IN  \A k \in 1..Len(l) : l[k].depth <= l[1].depth

\* remove of a resident point of a node n that has children puts the first
\* point of the first populated leaf under n at the end of n's list, and
\* nothing when no leaf under n holds a point
RefillFromFirstLeaf(n) ==
    \A p \in Elements(n._points) :
        (_has_subdivided(n) /\ contains_point(n.boundary, pt[p])) =>
            LET r == remove(n, p, pt)
                l == PopulatedLeaves(n)
            IN  /\ r.ret
                /\ r.tree._points = ListRemove(n._points, p, pt)
                                      \o (IF l = <<>> THEN <<>> ELSE <<Head(l[1].points)>>)

C27_AppendOnlyInLeaf ==
    \A n \in Nodes(tree) : \A p \in Points :
        LET r == insert(n, p, pt)
        IN  ~r.ovf =>
                /\ (r.tree._points # n._points) =>
                      (~_has_subdivided(n) /\ Len(n._points) < n._node_capacity)
                /\ (_has_subdivided(n) /\ contains_point(n.boundary, pt[p])) =>
                      /\ r.ret
                      /\ r.tree._points = n._points
                      /\ \E i \in 1..4 :
                            Count(get_all_points(_subtree_iterator(r.tree)[i][1]), p)
                              = Count(get_all_points(_subtree_iterator(n)[i][1]), p) + 1

\* C28: when translate_point reaches the node in which the point is resident
\* and the boundary of that node contains the shifted coordinates, only the
\* coordinates of that point change: the tree (nodes, children, resident lists
\* and their order) and the coordinates of all other points are as before.
\* Stated for every node as the receiver of the call, and for the call on the
\* root that answers translated.
C28_InPlaceTranslate ==
    \A p \in Points : \A s \in Shifts :
        LET to == Point(pt[p].x + s[1], pt[p].y + s[2])
        IN  /\ \A n \in Holders(tree, p) :
                  (contains_point(n.boundary, pt[p]) /\ contains_point(n.boundary, to)) =>
                      LET r == translate_point(n, p, s[1], s[2], pt)
                      IN  /\ r.ret = TranslatePointResult.translated
                          /\ r.tree = n
                          /\ r.pts = [pt EXCEPT ![p] = to]
            /\ LET r == translate_point(tree, p, s[1], s[2], pt)
               IN  (/\ Stored(p) = 1
                    /\ r.ret = TranslatePointResult.translated
                    /\ \A n \in Holders(tree, p) : contains_point(n.boundary, to)) =>
                       (r.tree = tree /\ r.pts = [pt EXCEPT ![p] = to])

\* a point resident below the root, first of two in its node, is translated in place
C28_Witness ==
    \E p \in Points : \E s \in Shifts : \E n \in Holders(tree, p) :
        /\ n # tree
        /\ Len(n._points) = 2
        /\ n._points[1] = p
        /\ Stored(p) = 1
        /\ translate_point(tree, p, s[1], s[2], pt).ret = TranslatePointResult.translated
        /\ translate_point(tree, p, s[1], s[2], pt).tree = tree
        /\ translate_point(tree, p, s[1], s[2], pt).pts # pt

\* the children of n in which insert of point p at xy added a reference to p
LandedIn(n, after, p) ==
    { i \in 1..4 : Count(get_all_points(_subtree_iterator(after)[i][1]), p)
                     = Count(get_all_points(_subtree_iterator(n)[i][1]), p) + 1 }

\* C29: when insert descends from a full node that has children, the point is
\* placed in the subtree of the first child, in the order of the children,
\* whose boundary contains its coordinates, and the other children are left
\* alone; a point on the vertical split line goes to a child on the left, a
\* point on the horizontal split line to a child above, a point at the center
\* to the upper-left child.
C29_TieBreak ==
    \A n \in Nodes(tree) :
        (_has_subdivided(n) /\ Len(n._points) = n._node_capacity) =>
            \A xy \in GridOf(n) :
                LET pts == [pt EXCEPT ![1] = xy]
                    r == insert(n, 1, pts)
                    first == CHOOSE i \in 1..4 :
                                /\ contains_point(_subtree_iterator(n)[i][1].boundary, xy)
                                /\ \A j \in 1..(i - 1) :
                                      ~contains_point(_subtree_iterator(n)[j][1].boundary, xy)
                    c == _subtree_iterator(n)[first][1].boundary
                IN  ~r.ovf =>
                        /\ r.ret
                        /\ LandedIn(n, r.tree, 1) = {first}
                        /\ \A j \in 1..4 :
                              j # first => _subtree_iterator(r.tree)[j] = _subtree_iterator(n)[j]
                        /\ (xy.x = n.boundary.center_x) => c.center_x < n.boundary.center_x
                        /\ (xy.y = n.boundary.center_y) => c.center_y > n.boundary.center_y

\* an insert at the center of a full root that has children
C29_Witness ==
    /\ _has_subdivided(tree)
    /\ Len(tree._points) = tree._node_capacity
    /\ LET r == insert(tree, 1, [pt EXCEPT ![1] = Point(tree.boundary.center_x, tree.boundary.center_y)])
       IN  r.ret /\ ~r.ovf /\ LandedIn(tree, r.tree, 1) = {1}

\* C30: while no point is inserted that the tree already holds, every stored
\* point is resident in exactly one node, once, and neither get_all_points()
\* nor query_points_in_region lists a point twice; the same is true of the tree
\* after a remove (with its refill) and after a translate_point (with its
\* insert at an ancestor).
C30_NoDuplication ==
    /\ \A p \in Points :
          /\ Stored(p) <= 1
          /\ Cardinality(Holders(tree, p)) = Stored(p)
          /\ \A region \in Regions : Count(query_points_in_region(tree, region, pt), p) <= 1
    /\ \A p, q \in Points :
          /\ Count(get_all_points(remove(tree, p, pt).tree), q) <= 1
          /\ \A s \in Shifts :
                LET r == translate_point(tree, p, s[1], s[2], pt)
                IN  ~r.ovf => Count(get_all_points(r.tree), q) <= 1

\* a stored point at the center of the root, inside the boundaries of all four
\* quadrants and held in the upper-left one
C30_Witness ==
    /\ _has_subdivided(tree)
    /\ \E p \in Points :
          /\ Stored(p) = 1
          /\ p \notin Elements(tree._points)
          /\ \A i \in 1..4 : contains_point(_subtree_iterator(tree)[i][1].boundary, pt[p])
          /\ p \in Elements(get_all_points(_subtree_iterator(tree)[1][1]))

\* the box has the four attributes of the constructor and no other, and its
\* half sizes are not negative
WellFormedBox(b) ==
    /\ DOMAIN b = {AxisAlignedBoundingBox_parameters[i] : i \in 1..4}
    /\ b.half_size_x >= 0
    /\ b.half_size_y >= 0

\* the root holds node_capacity points and has no children, and p is a
\* point in bounds that the tree does not hold
NextInsertSubdivides(p) ==
    /\ Stored(p) = 0
    /\ InRoot(pt[p])
    /\ Len(tree._points) = tree._node_capacity
    /\ ~_has_subdivided(tree)

\* C31: on a tree built with the shipped AxisAlignedBoundingBox, the insert of
\* the (node_capacity + 1)-th in-bounds point ends without an exception,
\* returns True and leaves the root with four children whose boundaries are
\* well-formed boxes.
C31_SubdivisionCompletes ==
    \A p \in Points :
        NextInsertSubdivides(p) =>
            LET r == insert_shipped(tree, p, pt)
            IN  /\ r.error = "none"
                /\ r.ret
                /\ \A i \in 1..4 :
                      /\ _subtree_iterator(r.tree)[i] # <<>>
                      /\ WellFormedBox(_subtree_iterator(r.tree)[i][1].boundary)

====
